---- MODULE Spec2Model ----
(***************************************************************************)
(* Model of the Sincera collection pipeline:                               *)
(*   - respect_rate_limits      (src/2_collect_sincera_data.py)            *)
(*   - fetch_domain_metrics     (src/2_collect_sincera_data.py)            *)
(*   - collect_all_data         (src/2_collect_sincera_data.py)            *)
(*   - create_clean_domain_dataset / create_sample_dataset                 *)
(*                              (src/1_create_domain_sample.py)            *)
(* Three specifications share the variables: SpecRate drives the rate      *)
(* limiter against an advancing clock, Spec drives the collection loop     *)
(* with its fetcher, SpecSample runs the sampler on bounded inputs.        *)
(***************************************************************************)
EXTENDS Integers, Sequences, FiniteSets, TLC

VARIABLES
    \* ---- rate limiter (module globals, lines 52-55) and the clock
    clock,            \* seconds; time.time() and datetime.now() read it
    request_times,    \* _request_times: deque of acquisition timestamps
    requests_today,   \* _requests_today
    current_day,      \* _current_day
    acquired,         \* history: every timestamp line 95 ever recorded
    \* ---- collect_all_data (lines 284-365)
    pc,               \* position of the single thread of control
    sample,           \* sample_df: sequence of [domain, network]
    is_testing,       \* argument of collect_all_data
    batch_size,       \* argument, then the effective cadence (line 301)
    i,                \* enumerate index of the loop, 1-based
    all_results,      \* list of result dicts
    successful_requests,
    failed_requests,
    saves,            \* history: the calls of save_incremental_progress
    exception,        \* the exception that left collect_all_data, or "none"
    \* ---- fetch_domain_metrics (lines 98-198), the call in progress
    attempt,          \* loop variable of `for attempt in range(max_retries)`
    result,           \* the dict the call returned
    responses,        \* history: what each requests.get of the call met
    sleeps,           \* history: the time.sleep calls of the call, in order
    acquisitions,     \* history: respect_rate_limits calls of the call
    requests,         \* history: requests.get calls of the call
    \* ---- sampler (src/1_create_domain_sample.py)
    spc,              \* position in main(): "start", "clean", "sampled"
    raptive_in,       \* rows of the Raptive query: the URL column
    competitor_in,    \* rows of the competitor query: [Domain, Network]
    sample_size,      \* argument of create_sample_dataset
    clean_df,         \* what create_clean_domain_dataset returned
    final_sample,     \* what create_sample_dataset returned
    \* ---- main() of src/2_collect_sincera_data.py (lines 367-447)
    mpc,              \* position in the script: import, load, collect, ...
    env,              \* what the run finds: key, sample file, warehouse, flags
    main_error        \* the exception that ended the script, or "none"

rateVars == <<clock, request_times, requests_today, current_day, acquired>>

collectVars == <<pc, sample, is_testing, batch_size, i, all_results,
                 successful_requests, failed_requests, saves, exception>>

fetchVars == <<attempt, result, responses, sleeps, acquisitions, requests>>

samplerVars == <<spc, raptive_in, competitor_in, sample_size, clean_df,
                 final_sample>>

mainVars == <<mpc, env, main_error>>

vars == <<rateVars, collectVars, fetchVars, samplerVars, mainVars>>

Max(a, b) == IF a >= b THEN a ELSE b
Min(a, b) == IF a <= b THEN a ELSE b

(***************************************************************************)
(* Rate limiter.  REQUESTS_PER_MINUTE (line 48: 45) and REQUESTS_PER_DAY   *)
(* (line 49: 5000) are scaled down to 2 and 3, the day is shortened to     *)
(* TicksPerDay ticks of TickLen seconds and the clock moves in ticks, so   *)
(* that both limits and a day change are reached within the clock bound;   *)
(* the algorithm does not depend on the values.  The 60 second window is   *)
(* the code's (lines 82, 87, 92).                                          *)
(***************************************************************************)
REQUESTS_PER_MINUTE == 2
REQUESTS_PER_DAY == 3
WindowSeconds == 60

TickLen == 20
TicksPerDay == 8
MaxTicks == 14
MaxAcquire == 7

SecondsPerDay == TicksPerDay * TickLen
MaxClock == MaxTicks * TickLen

\* datetime.now().date(): the calendar day a clock value falls on
DateOf(t) == t \div SecondsPerDay

\* datetime.combine(today + timedelta(days=1), datetime.min.time())
Midnight(day) == day * SecondsPerDay

\* while _request_times and now - _request_times[0] >= 60: popleft()
RECURSIVE Evict(_, _)
Evict(q, now) ==
    IF q # <<>> /\ now - Head(q) >= WindowSeconds
    THEN Evict(Tail(q), now)
    ELSE q

\* lines 61-68: read the clock, reset the counters on a new day
DayReset(s) ==
    LET today == DateOf(s.clock) IN
    IF today # s.day
    THEN [s EXCEPT !.day = today, !.count = 0, !.times = <<>>,
                   !.now = s.clock, !.today = today]
    ELSE [s EXCEPT !.now = s.clock, !.today = today]

\* lines 70-79: at the daily limit sleep until the next midnight, then reset
DailyWait(s) ==
    IF s.count >= REQUESTS_PER_DAY
    THEN LET wait_seconds == Midnight(s.today + 1) - s.clock
             woke == s.clock + Max(0, wait_seconds)
         IN [s EXCEPT !.clock = woke, !.day = DateOf(woke), !.count = 0,
                      !.times = <<>>, !.now = woke]
    ELSE s

\* lines 81-93: evict, and with a full window sleep until its head is 60 s old
MinuteWait(s) ==
    LET q == Evict(s.times, s.now) IN
    IF Len(q) >= REQUESTS_PER_MINUTE
    THEN LET wait_time == WindowSeconds - (s.now - Head(q))
             woke == IF wait_time > 0 THEN s.clock + wait_time ELSE s.clock
         IN [s EXCEPT !.clock = woke, !.now = woke, !.times = Evict(q, woke)]
    ELSE [s EXCEPT !.times = q]

\* lines 95-96: record a fresh time.time(), `lag` after the last clock read
Record(s, lag) ==
    LET stamp == s.clock + lag IN
    [s EXCEPT !.clock = stamp, !.times = Append(s.times, stamp),
              !.count = s.count + 1]

\* respect_rate_limits(), whole
respect_rate_limits(lag) ==
    LET s0 == [clock |-> clock, now |-> clock, today |-> current_day,
               day |-> current_day, count |-> requests_today,
               times |-> request_times]
        s == Record(MinuteWait(DailyWait(DayReset(s0))), lag)
    IN /\ clock' = s.clock
       /\ request_times' = s.times
       /\ requests_today' = s.count
       /\ current_day' = s.day
       /\ acquired' = Append(acquired, s.clock)

\* one call of the limiter; the stamp of line 95 is read up to a tick later
Acquire ==
    /\ Len(acquired) < MaxAcquire
    /\ \E lag \in {0, TickLen} : respect_rate_limits(lag)
    /\ UNCHANGED <<collectVars, fetchVars, samplerVars, mainVars>>

\* time passes between two calls (the request itself, backoff sleeps)
Tick ==
    /\ clock + TickLen <= MaxClock
    /\ clock' = clock + TickLen
    /\ UNCHANGED <<request_times, requests_today, current_day, acquired>>
    /\ UNCHANGED <<collectVars, fetchVars, samplerVars, mainVars>>

\* the variables of the other components, at rest
NoResult == [domain |-> "", api_success |-> FALSE, api_error |-> "", network |-> ""]

CollectIdle ==
    /\ pc = "idle"
    /\ sample = <<>>
    /\ is_testing = FALSE
    /\ batch_size = 1
    /\ i = 0
    /\ all_results = <<>>
    /\ successful_requests = 0
    /\ failed_requests = 0
    /\ saves = <<>>
    /\ exception = "none"
    /\ attempt = 0
    /\ result = NoResult
    /\ responses = <<>>
    /\ sleeps = <<>>
    /\ acquisitions = 0
    /\ requests = 0

NoEnv == [api_key |-> TRUE, sample_file |-> TRUE, snowflake |-> TRUE,
          upload |-> FALSE, testing |-> FALSE, rows |-> 0]

MainIdle ==
    /\ mpc = "idle"
    /\ env = NoEnv
    /\ main_error = "none"

SamplerIdle ==
    /\ spc = "idle"
    /\ raptive_in = <<>>
    /\ competitor_in = <<>>
    /\ sample_size = 1
    /\ clean_df = <<>>
    /\ final_sample = <<>>

RateIdle ==
    /\ clock = 0
    /\ request_times = <<>>
    /\ requests_today = 0
    /\ current_day = 0
    /\ acquired = <<>>

InitRate ==
    /\ clock \in {0, SecondsPerDay - 2 * TickLen}
    /\ request_times = <<>>
    /\ requests_today = 0
    /\ current_day = DateOf(clock)
    /\ acquired = <<>>
    /\ CollectIdle
    /\ SamplerIdle
    /\ MainIdle

NextRate == Acquire \/ Tick

SpecRate == InitRate /\ [][NextRate]_vars

\* acquisitions recorded in the 60 s window that ends at timestamp t
InWindow(t) == {j \in 1..Len(acquired) :
                   acquired[j] <= t /\ t - acquired[j] < WindowSeconds}

\* acquisitions recorded on calendar day d
OnDay(d) == {j \in 1..Len(acquired) : DateOf(acquired[j]) = d}

\* C1: no trailing 60-second window, whatever the clock did and also across
\* a day change, holds more than REQUESTS_PER_MINUTE recorded acquisitions.
C1_MinuteLimit ==
    \A k \in 1..Len(acquired) :
        Cardinality(InWindow(acquired[k])) <= REQUESTS_PER_MINUTE

\* C2: no calendar day holds more than REQUESTS_PER_DAY recorded
\* acquisitions, also when a rate-limit wait spans midnight.
C2_DailyLimit ==
    \A k \in 1..Len(acquired) :
        Cardinality(OnDay(DateOf(acquired[k]))) <= REQUESTS_PER_DAY


(***************************************************************************)
(* fetch_domain_metrics.  What one requests.get can meet:                  *)
(*   "200"          status 200, body a JSON object                         *)
(*   "200:invalid"  status 200, body not JSON                              *)
(*   "200:list"     status 200, body JSON but not an object                *)
(*   "404"          status 404                                             *)
(*   "429"          status 429, no Retry-After header                      *)
(*   "429:5"        status 429, Retry-After: 5                             *)
(*   "429:date"     status 429, Retry-After an HTTP-date                   *)
(*   "500"          any other status                                       *)
(*   "timeout", "connection"   requests.get raises a RequestException      *)
(***************************************************************************)
max_retries == 3

Statuses == {"200", "200:invalid", "200:list", "404", "429", "429:5",
             "429:date", "500"}
TransportFailures == {"timeout", "connection"}
Responses == Statuses \cup TransportFailures

\* response.status_code
StatusCode(r) ==
    CASE r \in {"200", "200:invalid", "200:list"} -> 200
      [] r = "404" -> 404
      [] r \in {"429", "429:5", "429:date"} -> 429
      [] OTHER -> 500

\* response.headers.get('Retry-After', '60')
RetryAfter(r) ==
    CASE r = "429:5" -> "5"
      [] r = "429:date" -> "Wed, 21 Oct 2015 07:28:00 GMT"
      [] OTHER -> "60"

\* int(retry_after): defined on decimal strings, ValueError on the rest
IsDecimal(str) == str \in {"5", "60"}
IntOf(str) == IF str = "5" THEN 5 ELSE 60

RECURSIVE Pow2(_)
Pow2(n) == IF n = 0 THEN 1 ELSE 2 * Pow2(n - 1)

\* the dicts the function returns (fetched_at and the metrics left out)
Success(domain) ==
    [domain |-> domain, api_success |-> TRUE, api_error |-> "None",
     network |-> ""]
Failure(domain, error) ==
    [domain |-> domain, api_success |-> FALSE, api_error |-> error,
     network |-> ""]

ExceptionMessage(e) == "Request exception: " \o e

\* what fetch_domain_metrics never touches
loopVars == <<sample, is_testing, batch_size, i, all_results,
              successful_requests, failed_requests, saves, samplerVars, mainVars>>

CurrentDomain == sample[i].domain

\* `return`: the call ends with a result
Return(res) ==
    /\ result' = res
    /\ pc' = "fetched"
    /\ UNCHANGED <<attempt, exception>>

\* an exception no handler of the function catches leaves it, and leaves
\* collect_all_data, which has no handler either
Raise(e) ==
    /\ exception' = e
    /\ pc' = "aborted"
    /\ UNCHANGED <<attempt, result>>

\* mutant: a retry goes straight to requests.get, the limiter being
\* called once before the loop only
ForAttemptNoAcquire(a) ==
    IF a < max_retries
    THEN /\ attempt' = a
         /\ pc' = "request"
         /\ UNCHANGED <<result, exception>>
    ELSE /\ attempt' = attempt
         /\ Return(Failure(CurrentDomain, "Max retries exceeded"))

\* the head of `for attempt in range(max_retries)`: the next attempt, or
\* lines 193-198 when the range is used up
ForAttempt(a) ==
    IF a < max_retries
    THEN /\ attempt' = a
         /\ pc' = "acquire"
         /\ UNCHANGED <<result, exception>>
    ELSE /\ attempt' = attempt
         /\ Return(Failure(CurrentDomain, "Max retries exceeded"))

\* mutant: the last attempt is taken for `attempt == max_retries`, so the
\* handler never returns the exception message
OnRequestExceptionOffByOne(e) ==
    IF attempt = max_retries
    THEN /\ Return(Failure(CurrentDomain, ExceptionMessage(e)))
         /\ UNCHANGED sleeps
    ELSE /\ sleeps' = Append(sleeps, [why |-> "backoff", secs |-> Pow2(attempt)])
         /\ ForAttempt(attempt + 1)

\* lines 183-191: the handler of requests.exceptions.RequestException
OnRequestException(e) ==
    IF attempt = max_retries - 1
    THEN /\ Return(Failure(CurrentDomain, ExceptionMessage(e)))
         /\ UNCHANGED sleeps
    ELSE /\ sleeps' = Append(sleeps, [why |-> "backoff", secs |-> Pow2(attempt)])
         /\ ForAttempt(attempt + 1)

\* mutant: the 429 branch retries without the Retry-After sleep
On429NoWait(r) ==
    IF IsDecimal(RetryAfter(r))
    THEN /\ UNCHANGED sleeps
         /\ ForAttempt(attempt + 1)
    ELSE /\ Raise("ValueError")
         /\ UNCHANGED sleeps

\* lines 167-173: the 429 branch
On429(r) ==
    IF IsDecimal(RetryAfter(r))
    THEN /\ sleeps' = Append(sleeps, [why |-> "retry_after",
                                       secs |-> IntOf(RetryAfter(r))])
         /\ ForAttempt(attempt + 1)
    ELSE /\ Raise("ValueError")
         /\ UNCHANGED sleeps

\* line 112: respect_rate_limits() (its own state is SpecRate's subject)
FetchAcquire ==
    /\ pc = "acquire"
    /\ acquisitions' = acquisitions + 1
    /\ pc' = "request"
    /\ UNCHANGED <<attempt, result, responses, sleeps, requests, exception>>
    /\ UNCHANGED <<rateVars, loopVars>>

\* lines 114-119: requests.get, which every branch below starts with
Get(r) ==
    /\ pc = "request"
    /\ requests' = requests + 1
    /\ responses' = Append(responses, r)
    /\ UNCHANGED <<acquisitions, rateVars, loopVars>>

\* lines 121-157
Request200 ==
    /\ Get("200")
    /\ Return(Success(CurrentDomain))
    /\ UNCHANGED sleeps

\* line 122 on a body that is not JSON: response.json() raises
\* requests.exceptions.JSONDecodeError, a RequestException, from
\* requests 2.27 on and a plain ValueError before
Request200Invalid ==
    /\ Get("200:invalid")
    /\ \E modern \in BOOLEAN :
          IF modern
          THEN OnRequestException("json")
          ELSE Raise("ValueError") /\ UNCHANGED sleeps

\* lines 125-127 on a body that is JSON but no object: data.get raises
Request200List ==
    /\ Get("200:list")
    /\ Raise("AttributeError")
    /\ UNCHANGED sleeps

\* mutant: a 404 is waited out and retried like a 429
Request404Retried ==
    /\ Get("404")
    /\ sleeps' = Append(sleeps, [why |-> "retry_after", secs |-> 60])
    /\ ForAttempt(attempt + 1)

\* lines 159-165
Request404 ==
    /\ Get("404")
    /\ Return(Failure(CurrentDomain, "Domain not found (404)"))
    /\ UNCHANGED sleeps

\* lines 167-173
Request429 ==
    \E r \in {"429", "429:5", "429:date"} :
        /\ Get(r)
        /\ On429(r)

\* lines 175-181
RequestOther ==
    /\ Get("500")
    /\ Return(Failure(CurrentDomain, "HTTP 500"))
    /\ UNCHANGED sleeps

\* lines 114-119 raising, lines 183-191
RequestFails ==
    \E e \in TransportFailures :
        /\ Get(e)
        /\ OnRequestException(e)

(***************************************************************************)
(* collect_all_data.  The sample is a prefix of a fixed list of distinct   *)
(* records; the cadence is scaled down from main's batch_size=100.         *)
(***************************************************************************)
MaxDomains == 3
MaxBatch == 2
TestBatchCap == 10
MainBatchSize == 100

Domains ==
    <<[domain |-> "a.com", network |-> "Raptive"],
      [domain |-> "b.com", network |-> "Aditude"],
      [domain |-> "c.com", network |-> "Mediavine"],
      [domain |-> "d.com", network |-> "Raptive"],
      [domain |-> "e.com", network |-> "Aditude"]>>

\* results[-n:] of a Python list, n > 0
LastN(results, n) ==
    SubSeq(results, Max(1, Len(results) - n + 1), Len(results))

\* lines 232-240
save_incremental_progress(results, batch_num) ==
    saves' = Append(saves, [batch_num |-> batch_num, results |-> results])

\* lines 294-307
CollectStart ==
    /\ pc = "start"
    /\ batch_size' = IF is_testing THEN Min(TestBatchCap, batch_size)
                                   ELSE batch_size
    /\ all_results' = <<>>
    /\ successful_requests' = 0
    /\ failed_requests' = 0
    /\ pc' = "loop"
    /\ UNCHANGED <<sample, is_testing, i, saves, exception, fetchVars,
                   rateVars, samplerVars, mainVars>>

\* lines 309-315: the next row, and the call of fetch_domain_metrics
LoopNext ==
    /\ pc = "loop"
    /\ i < Len(sample)
    /\ i' = i + 1
    /\ responses' = <<>>
    /\ sleeps' = <<>>
    /\ acquisitions' = 0
    /\ requests' = 0
    /\ attempt' = 0
    /\ result' = NoResult
    /\ pc' = "acquire"      \* range(max_retries) of the default 3 is not empty
    /\ UNCHANGED <<sample, is_testing, batch_size, all_results,
                   successful_requests, failed_requests, saves, exception,
                   rateVars, samplerVars, mainVars>>

\* lines 316-325
AppendResult ==
    /\ pc = "fetched"
    /\ LET tagged == [result EXCEPT !.network = sample[i].network] IN
       /\ all_results' = Append(all_results, tagged)
       /\ IF tagged.api_success
          THEN /\ successful_requests' = successful_requests + 1
               /\ UNCHANGED failed_requests
          ELSE /\ failed_requests' = failed_requests + 1
               /\ UNCHANGED successful_requests
    /\ pc' = "checkpoint"
    /\ UNCHANGED <<sample, is_testing, batch_size, i, saves, exception,
                   fetchVars, rateVars, samplerVars, mainVars>>

\* mutant: the cadence is off by one
CheckpointOffCadence ==
    /\ pc = "checkpoint"
    /\ IF i % (batch_size + 1) = 0
       THEN save_incremental_progress(LastN(all_results, batch_size),
                                      i \div (batch_size + 1))
       ELSE UNCHANGED saves
    /\ pc' = "loop"
    /\ UNCHANGED <<sample, is_testing, batch_size, i, all_results,
                   successful_requests, failed_requests, exception,
                   fetchVars, rateVars, samplerVars, mainVars>>

\* lines 327-331 (the progress report of lines 333-344 changes nothing)
Checkpoint ==
    /\ pc = "checkpoint"
    /\ IF i % batch_size = 0
       THEN save_incremental_progress(LastN(all_results, batch_size),
                                      i \div batch_size)
       ELSE UNCHANGED saves
    /\ pc' = "loop"
    /\ UNCHANGED <<sample, is_testing, batch_size, i, all_results,
                   successful_requests, failed_requests, exception,
                   fetchVars, rateVars, samplerVars, mainVars>>

\* mutant: the last, partial batch is not written
FinalSaveSkipsTail ==
    /\ pc = "loop"
    /\ i = Len(sample)
    /\ pc' = "summary"
    /\ UNCHANGED <<sample, is_testing, batch_size, i, all_results,
                   successful_requests, failed_requests, exception, saves,
                   fetchVars, rateVars, samplerVars, mainVars>>

\* lines 346-350, once the rows are used up
FinalSave ==
    /\ pc = "loop"
    /\ i = Len(sample)
    /\ IF Len(all_results) % batch_size # 0
       THEN save_incremental_progress(
                LastN(all_results, Len(all_results) % batch_size),
                Len(all_results) \div batch_size + 1)
       ELSE UNCHANGED saves
    /\ pc' = "summary"
    /\ UNCHANGED <<sample, is_testing, batch_size, i, all_results,
                   successful_requests, failed_requests, exception,
                   fetchVars, rateVars, samplerVars, mainVars>>

\* lines 352-365: the summary divides by len(all_results), then `return`
Summary ==
    /\ pc = "summary"
    /\ IF Len(all_results) = 0
       THEN pc' = "aborted" /\ exception' = "ZeroDivisionError"
       ELSE pc' = "returned" /\ UNCHANGED exception
    /\ UNCHANGED <<sample, is_testing, batch_size, i, all_results,
                   successful_requests, failed_requests, saves, fetchVars,
                   rateVars, samplerVars, mainVars>>

Init ==
    /\ RateIdle
    /\ SamplerIdle
    /\ MainIdle
    /\ pc = "start"
    /\ \E n \in 0..MaxDomains : sample = SubSeq(Domains, 1, n)
    /\ is_testing \in BOOLEAN
    /\ batch_size \in IF is_testing THEN {MaxBatch, MainBatchSize}
                                    ELSE 1..MaxBatch
    /\ i = 0
    /\ all_results = <<>>
    /\ successful_requests = 0
    /\ failed_requests = 0
    /\ saves = <<>>
    /\ exception = "none"
    /\ attempt = 0
    /\ result = NoResult
    /\ responses = <<>>
    /\ sleeps = <<>>
    /\ acquisitions = 0
    /\ requests = 0

Next ==
    \/ CollectStart
    \/ LoopNext
    \/ FetchAcquire
    \/ Request429
    \/ Request200
    \/ Request200List
    \/ Request200Invalid
    \/ Request404
    \/ RequestOther
    \/ RequestFails
    \/ AppendResult
    \/ Checkpoint
    \/ FinalSave
    \/ Summary

Spec == Init /\ [][Next]_vars


(***************************************************************************)
(* Properties of collect_all_data.                                         *)
(***************************************************************************)
CeilDiv(n, b) == (n + b - 1) \div b

\* the checkpoints written so far, concatenated in the order of writing
RECURSIVE ConcatSaves(_)
ConcatSaves(w) ==
    IF w = <<>> THEN <<>> ELSE Head(w).results \o ConcatSaves(Tail(w))

\* finalized results that no checkpoint holds yet
Unsaved == Len(all_results) - Len(ConcatSaves(saves))

\* inside a call of fetch_domain_metrics
InFetch == pc \in {"acquire", "request"}

\* a call of fetch_domain_metrics has returned, and none has begun since
FetchReturned ==
    /\ i >= 1
    /\ ~InFetch
    /\ ~(pc = "aborted" /\ Len(all_results) < i)

C4_LosesFewerThanBatch == Unsaved <= batch_size - 1

\* C4 amended: at every point at most batch_size finalized results are held
\* without a checkpoint, and fewer than batch_size everywhere but between
\* the append of a batch's last result and the write of that batch.
C4_LosesAtMostBatch ==
    /\ Unsaved <= batch_size
    /\ pc # "checkpoint" => Unsaved <= batch_size - 1

C4_Witness ==
    /\ pc = "checkpoint"
    /\ batch_size = 2
    /\ Len(all_results) = 2
    /\ Unsaved = batch_size

\* C9: no error of one domain leaves fetch_domain_metrics: the run never
\* aborts while a domain is being fetched.
C9_PerDomainErrorsCaptured ==
    ~(pc = "aborted" /\ i >= 1 /\ Len(all_results) < i)

(***************************************************************************)
(* Properties of fetch_domain_metrics.                                     *)
(***************************************************************************)
\* C5: a 404, or another status that is neither 200 nor 429, is the last
\* thing the call meets: it has returned a failed result for the domain and
\* issued no request after it; a 404 on the first request makes 1 request.
C5_NoRetryOnStatus ==
    \A k \in 1..Len(responses) :
        responses[k] \in {"404", "500"} =>
            /\ k = Len(responses)
            /\ requests = k
            /\ FetchReturned
            /\ result.api_success = FALSE
            /\ result.domain = CurrentDomain
            /\ responses[1] = "404" => requests = 1

C5_Witness ==
    /\ pc = "fetched"
    /\ responses = <<"404">>
    /\ requests = 1
    /\ result.api_error = "Domain not found (404)"

RetryAfterWaits == {k \in 1..Len(sleeps) : sleeps[k].why = "retry_after"}

\* C7: whatever the server answers, the call ends by returning a result,
\* after at most max_retries requests and at most max_retries 429 waits.
C7_ReturnsWithinBound ==
    /\ requests <= max_retries
    /\ Cardinality(RetryAfterWaits) <= max_retries
    /\ ~(pc = "aborted" /\ i >= 1 /\ Len(all_results) < i /\ requests >= 1)

\* the part of C7 that the code keeps: the attempts and waits are bounded
AttemptsBounded ==
    /\ requests <= max_retries
    /\ acquisitions <= max_retries
    /\ Cardinality(RetryAfterWaits) <= max_retries

\* what the handler of RequestException was given
Caught == TransportFailures \cup {"200:invalid"}
MessageOf(r) == IF r = "200:invalid" THEN "json" ELSE r

\* the call gave up because range(max_retries) was used up
Exhausted ==
    /\ FetchReturned
    /\ Len(responses) = max_retries
    /\ responses[max_retries] \in Caught \cup {"429", "429:5"}

\* C8 as claimed: whenever the call gives up with its retries used up after
\* a transport failure, the result is failed and its error is the message
\* of the transport failure, whatever 429s came in between.
C8_ExhaustedCarriesException ==
    (Exhausted /\ \E k \in 1..Len(responses) : responses[k] \in TransportFailures)
        => /\ result.api_success = FALSE
           /\ \E e \in TransportFailures :
                  result.api_error = ExceptionMessage(e)

\* C8 amended: a transport failure before the last attempt is followed by a
\* sleep of 2^attempt seconds and another attempt, at most max_retries
\* attempts in all; when the call gives up with its retries used up the
\* result is failed, and its error is the message of the exception when the
\* last attempt ended in one, "Max retries exceeded" when it ended in a 429.
C8_BackoffAndLastError ==
    /\ requests <= max_retries
    /\ \A k \in 1..Len(sleeps) :
           responses[k] \in Caught =>
               sleeps[k] = [why |-> "backoff", secs |-> Pow2(k - 1)]
    /\ \A k \in 1..Len(responses) :
           (responses[k] \in TransportFailures /\ k < max_retries) =>
               Len(sleeps) >= k
    /\ Exhausted =>
           /\ result.api_success = FALSE
           /\ responses[max_retries] \in Caught =>
                  result.api_error =
                      ExceptionMessage(MessageOf(responses[max_retries]))
           /\ responses[max_retries] \in {"429", "429:5"} =>
                  result.api_error = "Max retries exceeded"

C8_Witness ==
    /\ pc = "fetched"
    /\ responses = <<"timeout", "429", "connection">>
    /\ sleeps = <<[why |-> "backoff", secs |-> 1],
                  [why |-> "retry_after", secs |-> 60]>>
    /\ result.api_error = "Request exception: connection"


(***************************************************************************)
(* Sampler.  A domain string is a sequence of tokens: "a", "b" stand for   *)
(* host names, "A", "B" for the same in upper case, " " for white space,   *)
(* "p" for a path segment; the protocol and www. prefixes and "/" are      *)
(* themselves.  NaN is the missing value of the domain column.             *)
(***************************************************************************)
MaxRaptive == 1
MaxCompetitor == 2
MaxSampleSize == 1

NaN == <<"NaN">>

RawDomains ==
    { <<"a">>,
      <<"b">>,
      <<" ", "A">>,
      <<"HTTPS://", "WWW.", "B", "/", "p">>,
      <<"http://">>,
      <<" ">>,
      NaN }

CompetitorNetworks == {"Aditude", "Mediavine"}

\* str.lower()
LowerToken(t) ==
    CASE t = "A" -> "a"
      [] t = "B" -> "b"
      [] t = "HTTP://" -> "http://"
      [] t = "HTTPS://" -> "https://"
      [] t = "WWW." -> "www."
      [] OTHER -> t
Lower(str) ==
    IF str = NaN THEN NaN ELSE [k \in 1..Len(str) |-> LowerToken(str[k])]

\* str.strip()
RECURSIVE LStrip(_)
LStrip(str) ==
    IF str # <<>> /\ Head(str) = " " THEN LStrip(Tail(str)) ELSE str
RECURSIVE RStrip(_)
RStrip(str) ==
    IF str # <<>> /\ str[Len(str)] = " "
    THEN RStrip(SubSeq(str, 1, Len(str) - 1))
    ELSE str
Strip(str) == IF str = NaN THEN NaN ELSE RStrip(LStrip(str))

\* str.replace(r'^https?://', '', regex=True)
StripProtocol(str) ==
    IF str # <<>> /\ Head(str) \in {"http://", "https://"}
    THEN Tail(str) ELSE str

\* str.replace(r'^www\.', '', regex=True)
StripWww(str) ==
    IF str # <<>> /\ Head(str) = "www." THEN Tail(str) ELSE str

\* str.split('/').str[0]
RECURSIVE BeforeSlash(_)
BeforeSlash(str) ==
    IF str = <<>> \/ Head(str) = "/"
    THEN <<>>
    ELSE <<Head(str)>> \o BeforeSlash(Tail(str))

\* lines 62-69 and 79-86: the cleaning of the domain column, in the code's
\* order: lower and strip, drop missing, drop empty, strip the prefixes
NormalizeColumn(df) ==
    LET stripped == [k \in 1..Len(df) |->
                        [df[k] EXCEPT !.domain = Strip(Lower(@))]]
        NotNa(r) == r.domain # NaN
        NotEmpty(r) == r.domain # <<>>
        kept == SelectSeq(SelectSeq(stripped, NotNa), NotEmpty)
    IN [k \in 1..Len(kept) |->
           [kept[k] EXCEPT
               !.domain = BeforeSlash(StripWww(StripProtocol(@)))]]

\* lines 57-59
RaptiveFrame(urls) ==
    [k \in 1..Len(urls) |-> [domain |-> urls[k], network |-> "Raptive"]]

\* line 89 (the rename; the rows keep their order)
CompetitorFrame(rows) ==
    [k \in 1..Len(rows) |->
        [domain |-> rows[k].Domain, network |-> rows[k].Network]]

DomainsOf(df) == {df[k].domain : k \in 1..Len(df)}

\* drop_duplicates(subset=['domain']): the first row of each domain stays
DropDuplicates(df) ==
    LET First(k) == \A j \in 1..(k - 1) : df[j].domain # df[k].domain
        RECURSIVE Keep(_)
        Keep(k) == IF k > Len(df) THEN <<>>
                   ELSE (IF First(k) THEN <<df[k]>> ELSE <<>>) \o Keep(k + 1)
    IN Keep(1)

\* the order of sort_values(['network', 'domain'])
NetworkRank(n) ==
    CASE n = "Aditude" -> 1 [] n = "Mediavine" -> 2 [] OTHER -> 3
TokenRank(t) ==
    CASE t = " " -> 0 [] t = "/" -> 1 [] t = "a" -> 2 [] t = "b" -> 3
      [] t = "http://" -> 4 [] t = "https://" -> 5 [] t = "p" -> 6
      [] OTHER -> 7
RECURSIVE StrLess(_, _)
StrLess(x, y) ==
    IF x = <<>> THEN y # <<>>
    ELSE IF y = <<>> THEN FALSE
    ELSE IF Head(x) = Head(y) THEN StrLess(Tail(x), Tail(y))
    ELSE TokenRank(Head(x)) < TokenRank(Head(y))
RowLess(r, q) ==
    \/ NetworkRank(r.network) < NetworkRank(q.network)
    \/ r.network = q.network /\ StrLess(r.domain, q.domain)
RECURSIVE SortValues(_)
SortValues(df) ==
    IF df = <<>> THEN <<>>
    ELSE LET rest == SortValues(Tail(df))
             Before(r) == RowLess(r, Head(df))
             NotBefore(r) == ~RowLess(r, Head(df))
         IN SelectSeq(rest, Before) \o <<Head(df)>> \o SelectSeq(rest, NotBefore)

\* lines 93-95: competitor rows whose domain is a Raptive domain go
RemoveRaptive(raptive_df, competitor_df) ==
    LET Clean(r) == r.domain \notin DomainsOf(raptive_df)
    IN SelectSeq(competitor_df, Clean)

\* mutant: no filter, and the competitor rows come first in the concat
CombineCompetitorFirst(raptive_df, competitor_df) ==
    SortValues(DropDuplicates(competitor_df \o raptive_df))

\* lines 93-108: filter, concat, drop_duplicates, sort_values
Combine(raptive_df, competitor_df) ==
    SortValues(DropDuplicates(
        raptive_df \o RemoveRaptive(raptive_df, competitor_df)))

\* lines 38-117
create_clean_domain_dataset(urls, rows) ==
    Combine(NormalizeColumn(RaptiveFrame(urls)),
            NormalizeColumn(CompetitorFrame(rows)))

\* clean_df['network'].unique(): the networks in order of first appearance
Unique(df) ==
    LET nets == [k \in 1..Len(df) |-> [domain |-> <<df[k].network>>,
                                       network |-> df[k].network]]
        firsts == DropDuplicates(nets)
    IN [k \in 1..Len(firsts) |-> firsts[k].network]

\* DataFrame.sample(n=n, random_state=42): n distinct rows in some order;
\* which ones the fixed seed picks is not modelled, so any
Samples(df, n) ==
    {[k \in 1..n |-> df[f[k]]] :
        f \in {g \in [1..n -> 1..Len(df)] :
                  \A x, y \in 1..n : x # y => g[x] # g[y]}}

\* mutant: Aditude is capped like every other network
GroupSampleNoExempt(df, network, n) ==
    LET InNetwork(r) == r.network = network
        network_df == SelectSeq(df, InNetwork)
    IN IF Len(network_df) <= n THEN {network_df}
       ELSE Samples(network_df, n)

\* lines 138-151: what one network contributes
GroupSample(df, network, n) ==
    LET InNetwork(r) == r.network = network
        network_df == SelectSeq(df, InNetwork)
    IN IF network = "Aditude" THEN {network_df}
       ELSE IF Len(network_df) <= n THEN {network_df}
       ELSE Samples(network_df, n)

\* lines 119-172: the concatenation of the groups' samples, every outcome
create_sample_dataset(df, n) ==
    LET RECURSIVE Concat(_)
        Concat(nets) ==
            IF nets = <<>> THEN {<<>>}
            ELSE {h \o t : h \in GroupSample(df, Head(nets), n),
                           t \in Concat(Tail(nets))}
    IN Concat(Unique(df))

\* main(), line 195
CleanStep ==
    /\ spc = "start"
    /\ clean_df' = create_clean_domain_dataset(raptive_in, competitor_in)
    /\ spc' = "clean"
    /\ UNCHANGED <<raptive_in, competitor_in, sample_size, final_sample,
                   rateVars, collectVars, fetchVars, mainVars>>

\* main(), line 200; with no network at all pd.concat (line 156) is given
\* an empty list and raises ValueError
SampleStep ==
    /\ spc = "clean"
    /\ IF Unique(clean_df) = <<>>
       THEN spc' = "failed" /\ UNCHANGED final_sample
       ELSE /\ final_sample' \in create_sample_dataset(clean_df, sample_size)
            /\ spc' = "sampled"
    /\ UNCHANGED <<raptive_in, competitor_in, sample_size, clean_df,
                   rateVars, collectVars, fetchVars, mainVars>>

SeqsUpTo(S, n) == UNION {[1..k -> S] : k \in 0..n}

InitSample ==
    /\ RateIdle
    /\ CollectIdle
    /\ MainIdle
    /\ spc = "start"
    /\ raptive_in \in SeqsUpTo(RawDomains, MaxRaptive)
    /\ competitor_in \in
           SeqsUpTo([Domain : RawDomains, Network : CompetitorNetworks],
                    MaxCompetitor)
    /\ sample_size \in 1..MaxSampleSize
    /\ clean_df = <<>>
    /\ final_sample = <<>>

NextSample == CleanStep \/ SampleStep

SpecSample == InitSample /\ [][NextSample]_vars

\* the normalized trusted set (line 94)
TrustedSet == DomainsOf(NormalizeColumn(RaptiveFrame(raptive_in)))

\* C10: no domain of the normalized trusted set is in the sample under
\* another network than the trusted one; every trusted domain is in the
\* clean dataset as a trusted row, whatever competitor row shares it; and
\* a.com/trusted, b.com/competitor, a.com/competitor gives exactly a.com
\* trusted and b.com competitor.
C10_TrustedPrecedence ==
    /\ spc = "sampled" =>
           \A k \in 1..Len(final_sample) :
               final_sample[k].domain \in TrustedSet =>
                   final_sample[k].network = "Raptive"
    /\ spc \in {"clean", "sampled"} =>
           \A d \in TrustedSet :
               /\ [domain |-> d, network |-> "Raptive"] \in
                      {clean_df[k] : k \in 1..Len(clean_df)}
               /\ Cardinality({k \in 1..Len(clean_df) :
                                  clean_df[k].domain = d}) = 1
    /\ (/\ spc = "sampled"
        /\ raptive_in = << <<"a">> >>
        /\ competitor_in = <<[Domain |-> <<"b">>, Network |-> "Mediavine"],
                             [Domain |-> <<"a">>, Network |-> "Mediavine"]>>)
           => /\ Len(final_sample) = 2
              /\ {final_sample[k] : k \in 1..2} =
                     {[domain |-> <<"a">>, network |-> "Raptive"],
                      [domain |-> <<"b">>, network |-> "Mediavine"]}

C10_Witness ==
    /\ spc = "sampled"
    /\ raptive_in = << <<"a">> >>
    /\ competitor_in = <<[Domain |-> <<"b">>, Network |-> "Mediavine"],
                         [Domain |-> <<" ", "A">>, Network |-> "Mediavine"]>>
    /\ Len(final_sample) = 2


\* the rows of a frame that carry network n
CountOf(df, n) == Cardinality({k \in 1..Len(df) : df[k].network = n})

\* C11: in the sample every network but Aditude has at most sample_size
\* rows, and Aditude has as many rows as in the dataset that was sampled.
C11_CapPerGroup ==
    spc = "sampled" =>
        /\ \A n \in CompetitorNetworks \cup {"Raptive"} :
               n # "Aditude" => CountOf(final_sample, n) <= sample_size
        /\ CountOf(final_sample, "Aditude") = CountOf(clean_df, "Aditude")

C11_Witness ==
    /\ spc = "sampled"
    /\ sample_size = 1
    /\ CountOf(clean_df, "Aditude") = 2
    /\ CountOf(final_sample, "Aditude") = 2
    /\ CountOf(clean_df, "Raptive") = 1

\* C12: every requests.get of a call follows a respect_rate_limits of its
\* own: the limiter has been called once more than requests were issued
\* exactly when a request is about to be issued, and as often otherwise.
C12_AcquireBeforeEveryRequest ==
    /\ acquisitions >= requests
    /\ pc = "request" => acquisitions = requests + 1
    /\ pc # "request" => acquisitions = requests

C12_Witness ==
    /\ pc = "request"
    /\ responses = <<"429", "timeout">>
    /\ acquisitions = 3
    /\ requests = 2

\* C13: for every sample, also the empty one, the run completes and
\* returns one result per row, in the order of the rows, with the row's
\* domain and network.
C13_ReturnsOneResultPerRow ==
    /\ pc # "aborted"
    /\ pc = "returned" =>
           /\ Len(all_results) = Len(sample)
           /\ \A k \in 1..Len(sample) :
                  /\ all_results[k].domain = sample[k].domain
                  /\ all_results[k].network = sample[k].network

\* the part of C13 that the code keeps: what a run returns
ReturnedResultsMatchRows ==
    pc = "returned" =>
        /\ Len(all_results) = Len(sample)
        /\ \A k \in 1..Len(sample) :
               /\ all_results[k].domain = sample[k].domain
               /\ all_results[k].network = sample[k].network

\* C15: every domain of the clean dataset is lower case, trimmed, without
\* a leading protocol or www., without a path, and not empty.
C15_DomainsNormalized ==
    spc \in {"clean", "sampled"} =>
        \A k \in 1..Len(clean_df) :
            LET d == clean_df[k].domain IN
            /\ d # <<>>
            /\ d = Strip(Lower(d))
            /\ d = StripProtocol(d)
            /\ d = StripWww(d)
            /\ d = BeforeSlash(d)


(***************************************************************************)
(* The script of src/2_collect_sincera_data.py: the import-time check of   *)
(* the API key, then main(): load the sample, collect, save, upload.       *)
(***************************************************************************)
MaxMainDomains == 1
TestSizePerNetwork == 10

\* lines 200-230: per network all rows, or test_size_per_network of them
create_test_sample(df, n) ==
    LET Group(network) ==
            LET InNetwork(r) == r.network = network
                network_df == SelectSeq(df, InNetwork)
            IN IF Len(network_df) <= n THEN {network_df}
               ELSE Samples(network_df, n)
        RECURSIVE Concat(_)
        Concat(nets) ==
            IF nets = <<>> THEN {<<>>}
            ELSE {h \o t : h \in Group(Head(nets)), t \in Concat(Tail(nets))}
    IN Concat(Unique(df))

\* the script ends with an exception
Fail(e) ==
    /\ main_error' = e
    /\ mpc' = "failed"

\* lines 40-42, at import
ImportModule ==
    /\ mpc = "import"
    /\ IF env.api_key
       THEN mpc' = "load" /\ UNCHANGED main_error
       ELSE Fail("ValueError: SINCERA_API_KEY environment variable not set")
    /\ UNCHANGED <<env, rateVars, collectVars, fetchVars, samplerVars>>

\* lines 384-385: the sample file is not there
LoadSampleMissing ==
    /\ mpc = "load"
    /\ ~env.sample_file
    /\ Fail("FileNotFoundError: Sample domains not found")
    /\ UNCHANGED <<env, rateVars, collectVars, fetchVars, samplerVars>>

\* lines 387-392: in testing mode an empty sample gives pd.concat (line
\* 227) an empty list, which raises ValueError
LoadSampleEmptyTest ==
    /\ mpc = "load"
    /\ env.sample_file
    /\ env.testing
    /\ env.rows = 0
    /\ Fail("ValueError: No objects to concatenate")
    /\ UNCHANGED <<env, rateVars, collectVars, fetchVars, samplerVars>>

\* lines 387-404: read the sample, cut it in testing mode, and call
\* collect_all_data(sample_df, batch_size=100, is_testing=is_testing)
LoadSample ==
    /\ mpc = "load"
    /\ env.sample_file
    /\ ~(env.testing /\ env.rows = 0)
    /\ LET full_sample_df == SubSeq(Domains, 1, env.rows) IN
       sample' \in IF env.testing
                   THEN create_test_sample(full_sample_df, TestSizePerNetwork)
                   ELSE {full_sample_df}
    /\ is_testing' = env.testing
    /\ batch_size' = MainBatchSize
    /\ pc' = "start"
    /\ mpc' = "collect"
    /\ UNCHANGED <<env, main_error, i, all_results, successful_requests,
                   failed_requests, saves, exception, rateVars, fetchVars,
                   samplerVars>>

\* lines 406-418: collect_all_data returned; the final pickle and CSV
SaveFinal ==
    /\ mpc = "collect"
    /\ pc = "returned"
    /\ mpc' = "saved"
    /\ UNCHANGED <<env, main_error, rateVars, collectVars, fetchVars,
                   samplerVars>>

\* lines 447-449: an exception left collect_all_data; main re-raises it
CollectRaised ==
    /\ mpc = "collect"
    /\ pc = "aborted"
    /\ Fail(exception)
    /\ UNCHANGED <<env, rateVars, collectVars, fetchVars, samplerVars>>

\* lines 420-445: with the upload flag the Snowpark session is created
\* here (line 425), from the warehouse credentials, and not before
Upload ==
    /\ mpc = "saved"
    /\ IF env.upload /\ ~env.snowflake
       THEN Fail("SnowflakeSessionError")
       ELSE mpc' = "done" /\ UNCHANGED main_error
    /\ UNCHANGED <<env, rateVars, collectVars, fetchVars, samplerVars>>

InitMain ==
    /\ RateIdle
    /\ CollectIdle
    /\ SamplerIdle
    /\ mpc = "import"
    /\ env \in [api_key : BOOLEAN, sample_file : BOOLEAN,
                snowflake : BOOLEAN, upload : BOOLEAN, testing : BOOLEAN,
                rows : 0..MaxMainDomains]
    /\ main_error = "none"

NextMain ==
    \/ ImportModule
    \/ LoadSampleMissing
    \/ LoadSampleEmptyTest
    \/ LoadSample
    \/ SaveFinal
    \/ CollectRaised
    \/ Upload
    \/ CollectStart
    \/ LoopNext
    \/ FetchAcquire
    \/ Request429
    \/ Request200
    \/ Request200List
    \/ Request200Invalid
    \/ Request404
    \/ RequestOther
    \/ RequestFails
    \/ AppendResult
    \/ Checkpoint
    \/ FinalSave
    \/ Summary

SpecMain == InitMain /\ [][NextMain]_vars

\* the failures of credentials, configuration and the input source
SetupFailures ==
    {"ValueError: SINCERA_API_KEY environment variable not set",
     "FileNotFoundError: Sample domains not found",
     "SnowflakeSessionError"}

\* C14: a failure of credentials, configuration or the input source ends
\* the script before the first fetch: none is raised once a row's fetch
\* has begun.
C14_SetupFailuresBeforeFetch ==
    main_error \in SetupFailures => i = 0

\* the part of C14 that the code keeps: the API key and the sample file
EarlySetupFailuresBeforeFetch ==
    main_error \in SetupFailures \ {"SnowflakeSessionError"} => i = 0

====
